---- MODULE Spec2Model ----
(***************************************************************************)
(* GatewayClient (main/gateway.ts): one client object, the WebSocket       *)
(* transports it creates, its reconnect timer, and the promises returned   *)
(* by call().  Every action is one callback of the single-threaded event   *)
(* loop, run to completion: a caller's method call, a transport event      *)
(* (open, message, error, close) or a timer firing.                        *)
(***************************************************************************)
EXTENDS Integers, Sequences, FiniteSets, TLC

\* ---------------------------------------------------------------- bounds
MaxWs == 2
MaxCalls == 2
MaxReq == 3

\* ------------------------------------------------------- wire vocabulary
Payloads == {"p1", "p2"}
Errors == {"e1"}
Nonces == {"undefined", "abc", "xyz"}
EventNames == {"connect.challenge", "tick", "message", "connected", ""}
Methods == {"connect", "rpc"}

\* Correlation ids a response can carry. A call listener waits for "call-N",
\* N a value requestId had; "req-0" has the form of a handshake request's id
\* and stands for every id that no listener waits for.
ResIds(next) == {<<"req", 0>>} \cup {<<"call", n>> : n \in 0..(next - 1)}

NoMsg ==
  [type |-> "none", event |-> "", nonce |-> "", method |-> "", id |-> <<"", 0>>,
   ok |-> FALSE, body |-> ""]

\* GatewayMessage as it comes out of JSON.parse(data.toString()); a text that
\* does not parse (or parses to a non-object) is the envelope "malformed".
Malformed == [NoMsg EXCEPT !.type = "malformed"]

EventMsg(e, n) == [NoMsg EXCEPT !.type = "event", !.event = e, !.nonce = n]

ResMsg(m, i, o, b) ==
  [NoMsg EXCEPT !.type = "res", !.method = m, !.id = i, !.ok = o, !.body = b]

GatewayMessage(next) ==
  {Malformed}
    \cup {EventMsg("connect.challenge", n) : n \in Nonces}
    \cup {EventMsg(e, "") : e \in EventNames \ {"connect.challenge"}}
    \cup {ResMsg(m, i, TRUE, b) : m \in Methods, i \in ResIds(next), b \in Payloads}
    \cup {ResMsg(m, i, FALSE, b) : m \in Methods, i \in ResIds(next), b \in Errors}

\* The part of an envelope that the connect() listener reads.
Header(m) ==
  [type |-> m.type, event |-> m.event, nonce |-> m.nonce, method |-> m.method, ok |-> m.ok]

NoHeader == Header(NoMsg)

VARIABLES
  sockets,         \* the WebSocket objects created so far, in creation order
  ws,              \* this.ws: index into sockets, 0 for null
  reconnectTimer,  \* this.reconnectTimer: a timer handle, 0 for null
  timers,          \* handles of the reconnect timers scheduled and not yet fired or cleared
  connected,       \* this.connected
  requestId,       \* the module-level counter requestId
  calls,           \* one record per call() made: its promise, listener and timeout
  emitted,         \* notifications emitted by the client in the current step
  sent,            \* frames written to a transport in the current step
  handled,         \* header of the envelope handled in the current step (NoHeader otherwise)
  matched,         \* the calls whose listener found its own id in the envelope of the current step
  rejectedNow,     \* call() rejected with 'Not connected to Gateway' in the current step
  rejectedSince,   \* a connect response with ok=false was handled, and no ok=true one since
  okSeen,          \* a connect response with ok=true was handled on the current transport,
                   \* which has not closed since
  events,          \* main process: the buffer `events` of forwarded gateway events
  received,        \* the events the buffer's subscriber was called with since the last clear
  loaders,         \* renderer: per component, its isLoadingRef lock and the load it runs
  skipped,         \* the component whose load request returned at once in the current step
  cache,           \* main process: the Map `cache`, one entry per key
  inFlight,        \* per cache key, the handlers that missed the cache and await their result
  now,             \* Date.now(), in milliseconds since start
  served           \* the result an IPC handler returned in the current step

\* The gateway client's variables and those of its collaborators.
gatewayVars ==
  <<sockets, ws, reconnectTimer, timers, connected, requestId, calls, emitted, sent,
    handled, matched, rejectedNow, rejectedSince, okSeen>>

appVars == <<events, received, loaders, skipped, cache, inFlight, now, served>>

vars == <<gatewayVars, appVars>>

\* ------------------------------------------------------------ transports
\* new WebSocket(url): readyState CONNECTING, nothing observed on it yet.
\* challenged: a connect.challenge has been received on it.
NewSocket == [readyState |-> "CONNECTING", opened |-> FALSE, challenged |-> FALSE]

\* A transport after its 'close' event: nothing more happens on it.
ClosedSocket == [readyState |-> "CLOSED", opened |-> FALSE, challenged |-> FALSE]

\* ws.readyState === WebSocket.OPEN, with this.ws possibly null
WsIsOpen(socks, w) == w # 0 /\ socks[w].readyState = "OPEN"

\* WebSocket.close(): starts the closing handshake; the 'close' event comes later.
WsCloseCall(socks, w) ==
  IF w # 0 /\ socks[w].readyState \in {"CONNECTING", "OPEN"}
  THEN [socks EXCEPT ![w].readyState = "CLOSING"]
  ELSE socks

\* A transport emits 'message' while its connection is established and its
\* 'close' event has not been emitted yet.
Receiving(w) == sockets[w].opened /\ sockets[w].readyState \in {"OPEN", "CLOSING"}

\* ---------------------------------------------------------------- promise
\* A deferred that every resolve()/reject() settles anew.
SettleAgain(c, st, v, m) == [c EXCEPT !.state = st, !.value = v, !.from = <<m.id, m.body>>]

\* resolve()/reject() of the promise created in call(): only the first one settles it.
\* from records the id and body of the envelope (if any) that settled it.
Settle(c, st, v, m) ==
  IF c.state = "pending"
  THEN [c EXCEPT !.state = st, !.value = v, !.from = <<m.id, m.body>>]
  ELSE c

\* this.ws?.off('message', handler): removes the listener from the CURRENT
\* transport, which is the one it was registered on only if c.sock = ws.
OffHandler(c) == IF ws # 0 /\ c.sock = ws THEN [c EXCEPT !.listening = FALSE] ELSE c

\* ------------------------------------------------------------ isConnected
isConnected == connected /\ WsIsOpen(sockets, ws)

\* ============================================================ collaborators
\* The code around the client: the main process buffers the forwarded events
\* and caches CLI results (main/index.ts); the renderer's components poll
\* through loaders guarded by a lock.

\* ------------------------------------------------------------ event buffer
\* const MAX_EVENTS = 100
MAX_EVENTS == 100

\* Calls of the buffer's subscriber explored between two clears.
MaxReceived == 120

\* An event is identified by its arrival number since the last clear.
LastEvents(log, n) == SubSeq(log, IF Len(log) > n THEN Len(log) - n + 1 ELSE 1, Len(log))

\* events.push(event) with no shift afterwards.
PushUnbounded(buf, e) == Append(buf, e)

\* events.push(event); if (events.length > MAX_EVENTS) events.shift()
Push(buf, e) ==
  LET pushed == Append(buf, e)
  IN  IF Len(pushed) > MAX_EVENTS THEN Tail(pushed) ELSE pushed

\* gateway.on('message', event => ...): one call of the subscriber.
OnGatewayEvent ==
  /\ Len(received) < MaxReceived
  /\ received' = Append(received, Len(received) + 1)
  /\ events' = Push(events, Len(received) + 1)
  /\ UNCHANGED <<loaders, skipped, cache, inFlight, now, served>>
  /\ UNCHANGED gatewayVars

\* ipcMain.handle('gateway:clear'): events.length = 0
GatewayClear ==
  /\ events' = <<>>
  /\ received' = <<>>
  /\ UNCHANGED <<loaders, skipped, cache, inFlight, now, served>>
  /\ UNCHANGED gatewayVars

\* ----------------------------------------------------------------- loaders
Loaders == {"CronJobs", "Dashboard", "Skills"}

\* The awaits inside the try block: one Promise.all in CronJobs and Dashboard,
\* three calls in sequence in Skills.
Awaits(c) == IF c = "Skills" THEN 3 ELSE 1

\* Skills has no error state: its catch block only logs.
HasErrorState(c) == c # "Skills"

\* Loads of one component explored at a time.
MaxLoads == 2

\* useState(true) for loading, useState(null) for error, useRef(false).
IdleLoader ==
  [isLoadingRef |-> FALSE, running |-> 0, awaitsLeft |-> 0, loading |-> TRUE, error |-> FALSE]

\* finally { setLoading(false); isLoadingRef.current = false }
Finally(l) ==
  [l EXCEPT !.loading = FALSE, !.isLoadingRef = FALSE, !.running = @ - 1, !.awaitsLeft = 0]

\* loadData() / loadSkills(), from the mount effect or the interval, up to the
\* first await.
LoadData(c) ==
  /\ IF loaders[c].isLoadingRef
       THEN /\ skipped' = c
            /\ UNCHANGED loaders
       ELSE /\ loaders[c].running < MaxLoads
            /\ skipped' = "none"
            /\ loaders' = [loaders EXCEPT ![c].isLoadingRef = TRUE,
                                          ![c].running = @ + 1,
                                          ![c].awaitsLeft = Awaits(c)]
  /\ UNCHANGED <<events, received, cache, inFlight, now, served>>
  /\ UNCHANGED gatewayVars

\* An await that is not the last one of the try block resolves.
AwaitResolved(c) ==
  /\ loaders[c].running > 0
  /\ loaders[c].awaitsLeft > 1
  /\ loaders' = [loaders EXCEPT ![c].awaitsLeft = @ - 1]
  /\ skipped' = "none"
  /\ UNCHANGED <<events, received, cache, inFlight, now, served>>
  /\ UNCHANGED gatewayVars

\* The last await resolves: the try block ends with setError(null), then finally.
LoadDone(c) ==
  /\ loaders[c].running > 0
  /\ loaders[c].awaitsLeft = 1
  /\ loaders' = [loaders EXCEPT ![c] = [Finally(@) EXCEPT !.error = FALSE]]
  /\ skipped' = "none"
  /\ UNCHANGED <<events, received, cache, inFlight, now, served>>
  /\ UNCHANGED gatewayVars

\* The catch block with no finally after it.
LoadFailedKeepsLock(c) ==
  /\ loaders[c].running > 0
  /\ loaders' = [loaders EXCEPT ![c].error = HasErrorState(c),
                                ![c].running = @ - 1,
                                ![c].awaitsLeft = 0]
  /\ skipped' = "none"
  /\ UNCHANGED <<events, received, cache, inFlight, now, served>>
  /\ UNCHANGED gatewayVars

\* The pending await rejects: catch { setError(...) }, then finally.
LoadFailed(c) ==
  /\ loaders[c].running > 0
  /\ loaders' = [loaders EXCEPT ![c] = [Finally(@) EXCEPT !.error = HasErrorState(c)]]
  /\ skipped' = "none"
  /\ UNCHANGED <<events, received, cache, inFlight, now, served>>
  /\ UNCHANGED gatewayVars

\* -------------------------------------------------------- CLI result cache
\* const CACHE_TTL = 5000 // 5 seconds
CACHE_TTL == 5000

\* The clock is observed every TickMs milliseconds, up to MaxTime.
TickMs == 2500
MaxTime == 7500

\* Handlers of one key that may await their CLI result at the same time.
MaxInFlight == 1

CacheKeys == {"cron:status", "cron:runs", "skills:list"}

\* cache.get(key) of a key that is not in the Map.
NoEntry == [present |-> FALSE, success |-> FALSE, expires |-> 0]

NoServed == [key |-> "", from |-> "", success |-> FALSE]

\* getCached: entry && entry.expires > Date.now()
CacheHit(k) == cache[k].present /\ cache[k].expires > now

\* setCache(key, data): cache.set(key, { data, expires: Date.now() + CACHE_TTL })
setCache(k, ok) ==
  [cache EXCEPT ![k] = [present |-> TRUE, success |-> ok, expires |-> now + CACHE_TTL]]

\* Date.now() advances.
Tick ==
  /\ now < MaxTime
  /\ now' = now + TickMs
  /\ served' = NoServed
  /\ UNCHANGED <<events, received, loaders, skipped, cache, inFlight>>
  /\ UNCHANGED gatewayVars

\* ipcMain.handle(k) up to its first await: a hit returns the cached result,
\* a miss deletes the key and starts the CLI command.
Request(k) ==
  /\ IF CacheHit(k)
       THEN /\ served' = [key |-> k, from |-> "cache", success |-> cache[k].success]
            /\ UNCHANGED <<cache, inFlight>>
       ELSE /\ inFlight[k] < MaxInFlight
            /\ cache' = [cache EXCEPT ![k] = NoEntry]
            /\ inFlight' = [inFlight EXCEPT ![k] = @ + 1]
            /\ served' = NoServed
  /\ UNCHANGED <<events, received, loaders, skipped, now>>
  /\ UNCHANGED gatewayVars

\* The command succeeds: the result is stored and returned.
ExecSucceeded(k) ==
  /\ inFlight[k] > 0
  /\ cache' = setCache(k, TRUE)
  /\ inFlight' = [inFlight EXCEPT ![k] = @ - 1]
  /\ served' = [key |-> k, from |-> "exec", success |-> TRUE]
  /\ UNCHANGED <<events, received, loaders, skipped, now>>
  /\ UNCHANGED gatewayVars

\* A catch block that stores the failure before returning it.
ExecFailedCached(k) ==
  /\ inFlight[k] > 0
  /\ cache' = setCache(k, FALSE)
  /\ inFlight' = [inFlight EXCEPT ![k] = @ - 1]
  /\ served' = [key |-> k, from |-> "exec", success |-> FALSE]
  /\ UNCHANGED <<events, received, loaders, skipped, now>>
  /\ UNCHANGED gatewayVars

\* The command fails: catch { return { success: false, ... } }
ExecFailed(k) ==
  /\ inFlight[k] > 0
  /\ inFlight' = [inFlight EXCEPT ![k] = @ - 1]
  /\ served' = [key |-> k, from |-> "exec", success |-> FALSE]
  /\ UNCHANGED <<events, received, loaders, skipped, cache, now>>
  /\ UNCHANGED gatewayVars

\* The collaborators before any event, load or request.
AppInit ==
  /\ events = <<>>
  /\ received = <<>>
  /\ loaders = [c \in Loaders |-> IdleLoader]
  /\ skipped = "none"
  /\ cache = [k \in CacheKeys |-> NoEntry]
  /\ inFlight = [k \in CacheKeys |-> 0]
  /\ now = 0
  /\ served = NoServed

\* ---------------------------------------------------------------- Init
Init ==
  /\ sockets = <<>>
  /\ ws = 0
  /\ reconnectTimer = 0
  /\ timers = {}
  /\ connected = FALSE
  /\ requestId = 0
  /\ calls = <<>>
  /\ emitted = <<>>
  /\ sent = <<>>
  /\ handled = NoHeader
  /\ matched = {}
  /\ rejectedNow = FALSE
  /\ rejectedSince = FALSE
  /\ okSeen = FALSE
  /\ AppInit

\* ---------------------------------------------------------------- connect
\* connect() without its `if (this.ws?.readyState === WebSocket.OPEN) return`.
ConnectBodyAlways ==
  /\ Len(sockets) < MaxWs
  /\ sockets' = Append(sockets, NewSocket)
  /\ ws' = Len(sockets) + 1
  /\ okSeen' = FALSE

\* connect(): no-op when the current transport is open, else a new transport
\* replaces this.ws (the old one, if any, keeps its listeners).
ConnectBody ==
  IF WsIsOpen(sockets, ws)
  THEN UNCHANGED <<sockets, ws, okSeen>>
  ELSE /\ Len(sockets) < MaxWs
       /\ sockets' = Append(sockets, NewSocket)
       /\ ws' = Len(sockets) + 1
       /\ okSeen' = FALSE

Connect ==
  /\ ConnectBody
  /\ emitted' = <<>>
  /\ sent' = <<>>
  /\ handled' = NoHeader
  /\ UNCHANGED appVars
  /\ matched' = {}
  /\ rejectedNow' = FALSE
  /\ UNCHANGED <<reconnectTimer, timers, connected, requestId, calls, rejectedSince>>

\* The callback of the setTimeout in scheduleReconnect: calls connect() and
\* leaves this.reconnectTimer as it is.
ReconnectFire(t) ==
  /\ t \in timers
  /\ timers' = timers \ {t}
  /\ ConnectBody
  /\ emitted' = <<>>
  /\ sent' = <<>>
  /\ handled' = NoHeader
  /\ UNCHANGED appVars
  /\ matched' = {}
  /\ rejectedNow' = FALSE
  /\ UNCHANGED <<reconnectTimer, connected, requestId, calls, rejectedSince>>

\* ------------------------------------------------------ scheduleReconnect
FreshTimer == CHOOSE t \in 1..(Cardinality(timers) + 2) : t \notin timers /\ t # reconnectTimer

\* scheduleReconnect without its `if (this.reconnectTimer) return`.
scheduleReconnectUnguarded ==
  /\ reconnectTimer' = FreshTimer
  /\ timers' = timers \cup {FreshTimer}

scheduleReconnect ==
  IF reconnectTimer # 0
  THEN UNCHANGED <<reconnectTimer, timers>>
  ELSE /\ reconnectTimer' = FreshTimer
       /\ timers' = timers \cup {FreshTimer}

\* ------------------------------------------------------------- disconnect
\* What disconnect() makes of <<timers, reconnectTimer, sockets, ws, connected>>.
DisconnectResult ==
  <<timers \ {reconnectTimer}, 0, WsCloseCall(sockets, ws), 0, FALSE>>

\* disconnect() without its clearTimeout(): it only forgets the handle.
DisconnectKeepsTimer ==
  /\ UNCHANGED timers
  /\ reconnectTimer' = 0
  /\ sockets' = WsCloseCall(sockets, ws)
  /\ ws' = 0
  /\ connected' = FALSE
  /\ okSeen' = FALSE
  /\ emitted' = <<>>
  /\ sent' = <<>>
  /\ handled' = NoHeader
  /\ UNCHANGED appVars
  /\ matched' = {}
  /\ rejectedNow' = FALSE
  /\ UNCHANGED <<requestId, calls, rejectedSince>>

Disconnect ==
  /\ timers' = timers \ {reconnectTimer}
  /\ reconnectTimer' = 0
  /\ sockets' = WsCloseCall(sockets, ws)
  /\ ws' = 0
  /\ connected' = FALSE
  /\ okSeen' = FALSE
  /\ emitted' = <<>>
  /\ sent' = <<>>
  /\ handled' = NoHeader
  /\ UNCHANGED appVars
  /\ matched' = {}
  /\ rejectedNow' = FALSE
  /\ UNCHANGED <<requestId, calls, rejectedSince>>

\* ------------------------------------------------------- transport events
\* ws.on('open'): only logs.
WsOpen(w) ==
  /\ w \in 1..Len(sockets)
  /\ sockets[w].readyState = "CONNECTING"
  /\ sockets' = [sockets EXCEPT ![w].readyState = "OPEN", ![w].opened = TRUE]
  /\ emitted' = <<>>
  /\ sent' = <<>>
  /\ handled' = NoHeader
  /\ UNCHANGED appVars
  /\ matched' = {}
  /\ rejectedNow' = FALSE
  /\ UNCHANGED <<ws, reconnectTimer, timers, connected, requestId, calls, rejectedSince, okSeen>>

\* An 'error' listener that also treats the client as disconnected.
WsErrorFatal(w) ==
  /\ w \in 1..Len(sockets)
  /\ sockets[w].readyState # "CLOSED"
  /\ connected' = FALSE
  /\ emitted' = << <<"error", "transport">> >>
  /\ sent' = <<>>
  /\ handled' = NoHeader
  /\ UNCHANGED appVars
  /\ matched' = {}
  /\ rejectedNow' = FALSE
  /\ UNCHANGED <<sockets, ws, reconnectTimer, timers, requestId, calls, rejectedSince, okSeen>>

\* ws.on('error'): re-emits the error, nothing else.
WsError(w) ==
  /\ w \in 1..Len(sockets)
  /\ sockets[w].readyState # "CLOSED"
  /\ emitted' = << <<"error", "transport">> >>
  /\ sent' = <<>>
  /\ handled' = NoHeader
  /\ UNCHANGED appVars
  /\ matched' = {}
  /\ rejectedNow' = FALSE
  /\ UNCHANGED <<sockets, ws, reconnectTimer, timers, connected, requestId, calls, rejectedSince, okSeen>>

\* ws.on('close'), emitted once per transport, whichever transport it is.
WsClose(w) ==
  /\ w \in 1..Len(sockets)
  /\ sockets[w].readyState # "CLOSED"
  /\ sockets' = [sockets EXCEPT ![w] = ClosedSocket]
  /\ okSeen' = (okSeen /\ w # ws)
  /\ connected' = FALSE
  /\ emitted' = << <<"disconnected", "">> >>
  /\ scheduleReconnect
  /\ sent' = <<>>
  /\ handled' = NoHeader
  /\ UNCHANGED appVars
  /\ matched' = {}
  /\ rejectedNow' = FALSE
  /\ UNCHANGED <<ws, requestId, calls, rejectedSince>>

\* ---------------------------------------------------------- ws.on('message')
IsChallenge(m) == m.type = "event" /\ m.event = "connect.challenge"

\* A listener that takes for the handshake response the response whose id has
\* the form of a handshake request's id.
IsConnectResById(m) == m.type = "res" /\ m.id[1] = "req"

IsConnectRes(m) == m.type = "res" /\ m.method = "connect"

\* A connect request whose device.nonce is always the empty string.
DeviceNonceBlank(n) == ""

\* device.nonce of the connect request: challenge?.nonce || ''
DeviceNonce(n) == IF n = "undefined" THEN "" ELSE n

\* message.event || 'unknown'
EventChannel(e) == IF e = "" THEN "unknown" ELSE e

\* A counter that is read but not incremented.
NextRequestIdStuck(n) == n

\* requestId++ in sendRequest() and in call()
NextRequestId(n) == n + 1

\* sendRequest(): writes a frame only if the CURRENT transport is open.
SendRequestSends == WsIsOpen(sockets, ws)

\* A listener that forwards an event on the 'message' channel only.
MainEmitsOnce(m) ==
  IF m.type = "event" /\ ~IsChallenge(m)
  THEN << <<"message", EventChannel(m.event)>> >>
  ELSE IF IsConnectRes(m) /\ m.ok
       THEN << <<"connected", "">> >>
       ELSE <<>>

\* What the client emits while handling envelope m in the connect() listener:
\* pairs <<channel, type of the normalized event>>.
MainEmits(m) ==
  IF m.type = "event" /\ ~IsChallenge(m)
  THEN << <<"message", EventChannel(m.event)>>, <<EventChannel(m.event), EventChannel(m.event)>> >>
  ELSE IF IsConnectRes(m) /\ m.ok
       THEN << <<"connected", "">> >>
       ELSE <<>>

\* response.type === 'res' && response.id === id
IdMatches(c, m) == m.type = "res" /\ m.id = c.id

\* The call listener without its `response.id === id` test.
CallHandlerAnyId(c, m) ==
  IF m.type = "malformed"
  THEN Settle(OffHandler(c), "rejected", "parse", m)
  ELSE IF m.type = "res"
       THEN IF m.ok
            THEN Settle(OffHandler(c), "resolved", m.body, m)
            ELSE Settle(OffHandler(c), "rejected", m.body, m)
       ELSE c

\* The listener that call() registers, run for call record c on envelope m.
CallHandler(c, m) ==
  IF m.type = "malformed"
  THEN Settle(OffHandler(c), "rejected", "parse", m)
  ELSE IF IdMatches(c, m)
       THEN IF m.ok
            THEN Settle(OffHandler(c), "resolved", m.body, m)
            ELSE Settle(OffHandler(c), "rejected", m.body, m)
       ELSE c

\* One 'message' event of transport w: the listener registered by connect()
\* runs first, then every call listener still registered on w.
WsMessage(w, m) ==
  /\ w \in 1..Len(sockets)
  /\ Receiving(w)
  /\ handled' = Header(m)
  /\ UNCHANGED appVars
  /\ matched' = {i \in 1..Len(calls) : calls[i].sock = w /\ calls[i].listening /\ IdMatches(calls[i], m)}
  /\ rejectedNow' = FALSE
  /\ IF IsChallenge(m) /\ SendRequestSends
     THEN /\ requestId < MaxReq
          /\ sent' = << [sock |-> ws, id |-> <<"req", requestId>>, method |-> "connect",
                         nonce |-> DeviceNonce(m.nonce)] >>
          /\ requestId' = NextRequestId(requestId)
     ELSE /\ sent' = <<>>
          /\ requestId' = requestId
  /\ emitted' = MainEmits(m)
  /\ connected' = IF IsConnectRes(m) /\ m.ok THEN TRUE ELSE connected
  /\ sockets' = IF IsConnectRes(m) /\ ~m.ok
                THEN WsCloseCall(sockets, ws)
                ELSE IF IsChallenge(m)
                     THEN [sockets EXCEPT ![w].challenged = TRUE]
                     ELSE sockets
  /\ okSeen' = (okSeen \/ (IsConnectRes(m) /\ m.ok /\ w = ws))
  /\ rejectedSince' = IF IsConnectRes(m) THEN ~m.ok ELSE rejectedSince
  /\ calls' = [i \in 1..Len(calls) |->
                 IF calls[i].sock = w /\ calls[i].listening
                 THEN CallHandler(calls[i], m)
                 ELSE calls[i]]
  /\ UNCHANGED <<ws, reconnectTimer, timers>>

\* ------------------------------------------------------------------- call
PendingCall(i, w) ==
  [id |-> i, sock |-> w, listening |-> TRUE, timer |-> TRUE, state |-> "pending",
   value |-> "", from |-> <<NoMsg.id, NoMsg.body>>]

\* call() without its `if (!this.isConnected())` branch.
CallUnchecked ==
  /\ Len(calls) < MaxCalls
  /\ requestId < MaxReq
  /\ rejectedNow' = FALSE
  /\ calls' = Append(calls, PendingCall(<<"call", requestId>>, ws))
  /\ sent' = << [sock |-> ws, id |-> <<"call", requestId>>, method |-> "rpc", nonce |-> ""] >>
  /\ requestId' = requestId + 1
  /\ emitted' = <<>>
  /\ handled' = NoHeader
  /\ UNCHANGED appVars
  /\ matched' = {}
  /\ UNCHANGED <<sockets, ws, reconnectTimer, timers, connected, rejectedSince, okSeen>>

Call ==
  /\ IF ~isConnected
     THEN /\ rejectedNow' = TRUE
          /\ UNCHANGED <<calls, requestId>>
          /\ sent' = <<>>
     ELSE /\ Len(calls) < MaxCalls
          /\ requestId < MaxReq
          /\ rejectedNow' = FALSE
          /\ calls' = Append(calls, PendingCall(<<"call", requestId>>, ws))
          /\ sent' = << [sock |-> ws, id |-> <<"call", requestId>>, method |-> "rpc",
                         nonce |-> ""] >>
          /\ requestId' = NextRequestId(requestId)
  /\ emitted' = <<>>
  /\ handled' = NoHeader
  /\ UNCHANGED appVars
  /\ matched' = {}
  /\ UNCHANGED <<sockets, ws, reconnectTimer, timers, connected, rejectedSince, okSeen>>

\* A timeout callback that rejects every call it finds, not only its own.
CallTimeoutAll(i) ==
  /\ i \in 1..Len(calls)
  /\ calls[i].timer
  /\ calls' = [j \in 1..Len(calls) |->
                 Settle(OffHandler(IF j = i THEN [calls[j] EXCEPT !.timer = FALSE] ELSE calls[j]),
                        "rejected", "Timeout", NoMsg)]
  /\ emitted' = <<>>
  /\ sent' = <<>>
  /\ handled' = NoHeader
  /\ UNCHANGED appVars
  /\ matched' = {}
  /\ rejectedNow' = FALSE
  /\ UNCHANGED <<sockets, ws, reconnectTimer, timers, connected, requestId, rejectedSince, okSeen>>

\* The timeout callback without its reject(): it only removes the listener.
CallTimeoutNoReject(i) ==
  /\ i \in 1..Len(calls)
  /\ calls[i].timer
  /\ calls' = [calls EXCEPT ![i] = OffHandler([@ EXCEPT !.timer = FALSE])]
  /\ emitted' = <<>>
  /\ sent' = <<>>
  /\ handled' = NoHeader
  /\ UNCHANGED appVars
  /\ matched' = {}
  /\ rejectedNow' = FALSE
  /\ UNCHANGED <<sockets, ws, reconnectTimer, timers, connected, requestId, rejectedSince, okSeen>>

\* The setTimeout callback of call(): always fires, 30 s after the call.
CallTimeout(i) ==
  /\ i \in 1..Len(calls)
  /\ calls[i].timer
  /\ calls' = [calls EXCEPT ![i] = Settle(OffHandler([@ EXCEPT !.timer = FALSE]),
                                          "rejected", "Timeout", NoMsg)]
  /\ emitted' = <<>>
  /\ sent' = <<>>
  /\ handled' = NoHeader
  /\ UNCHANGED appVars
  /\ matched' = {}
  /\ rejectedNow' = FALSE
  /\ UNCHANGED <<sockets, ws, reconnectTimer, timers, connected, requestId, rejectedSince, okSeen>>

\* ------------------------------------------------------------------- Next
\* The callbacks that do not involve call(): the caller's connect() and
\* disconnect(), the reconnect timer and the transport events.
NextLifecycle ==
  \/ Connect
  \/ Disconnect
  \/ \E t \in timers : ReconnectFire(t)
  \/ \E w \in 1..Len(sockets) : WsOpen(w)
  \/ \E w \in 1..Len(sockets) : WsError(w)
  \/ \E w \in 1..Len(sockets) : WsClose(w)
  \/ \E w \in 1..Len(sockets) : \E m \in GatewayMessage(requestId) : WsMessage(w, m)

Next ==
  \/ NextLifecycle
  \/ Call
  \/ \E i \in 1..Len(calls) : CallTimeout(i)

\* The runs in which no caller ever calls disconnect() (nor call(), which
\* leaves the transports and the reconnect timer alone).
NextNoDisconnect ==
  \/ Connect
  \/ \E t \in timers : ReconnectFire(t)
  \/ \E w \in 1..Len(sockets) : WsOpen(w)
  \/ \E w \in 1..Len(sockets) : WsError(w)
  \/ \E w \in 1..Len(sockets) : WsClose(w)
  \/ \E w \in 1..Len(sockets) : \E m \in GatewayMessage(requestId) : WsMessage(w, m)

\* The callbacks that decide what happens to a call: everything except the
\* transport's 'error' event and the pushed events, whose handlers neither read
\* nor write a call's listener, timeout or promise.
ReplyMessage(next) == {m \in GatewayMessage(next) : m.type # "event"}

NextCalls ==
  \/ Connect
  \/ Disconnect
  \/ Call
  \/ \E t \in timers : ReconnectFire(t)
  \/ \E w \in 1..Len(sockets) : WsOpen(w)
  \/ \E w \in 1..Len(sockets) : WsClose(w)
  \/ \E w \in 1..Len(sockets) : \E m \in ReplyMessage(requestId) : WsMessage(w, m)
  \/ \E i \in 1..Len(calls) : CallTimeout(i)

\* The callbacks that allocate a request id or take part in the handshake,
\* with the envelopes the handshake reads: challenges, and responses whose id
\* has the form of a handshake request's id (it is the id of the last
\* handshake request only when that request was the first one sent).
HandshakeMessage(next) ==
  {m \in GatewayMessage(next) : IsChallenge(m) \/ (m.type = "res" /\ m.id[1] = "req")}

NextRequests ==
  \/ Connect
  \/ Disconnect
  \/ Call
  \/ \E t \in timers : ReconnectFire(t)
  \/ \E w \in 1..Len(sockets) : WsOpen(w)
  \/ \E w \in 1..Len(sockets) : WsClose(w)
  \/ \E w \in 1..Len(sockets) : \E m \in HandshakeMessage(requestId) : WsMessage(w, m)

\* NextCalls together with the transport's 'error' event.
NextWithErrors ==
  \/ NextCalls
  \/ \E w \in 1..Len(sockets) : WsError(w)

\* Every callback of the client.
Spec == Init /\ [][Next]_vars

SpecWithErrors == Init /\ [][NextWithErrors]_vars

SpecRequests == Init /\ [][NextRequests]_vars

SpecCalls == Init /\ [][NextCalls]_vars

\* The event loop runs the callback of every setTimeout that is due.
FairSpecCalls == SpecCalls /\ \A i \in 1..MaxCalls : WF_vars(CallTimeout(i))

\* The client as the application drives it (main/index.ts never calls call()).
\* Call and CallTimeout write only calls, requestId and the step outputs, so
\* the lifecycle variables take the same values here as under Spec.
SpecLifecycle == Init /\ [][NextLifecycle]_vars

SpecNoDisconnect == Init /\ [][NextNoDisconnect]_vars

\* The buffer's subscriber and gateway:clear.
NextBuffer == OnGatewayEvent \/ GatewayClear

SpecBuffer == Init /\ [][NextBuffer]_vars

\* The three polling components of the renderer.
NextLoaders ==
  \E c \in Loaders : LoadData(c) \/ AwaitResolved(c) \/ LoadDone(c) \/ LoadFailed(c)

SpecLoaders == Init /\ [][NextLoaders]_vars

\* The cached IPC handlers and the clock.
NextCache ==
  \/ Tick
  \/ \E k \in CacheKeys : Request(k) \/ ExecSucceeded(k) \/ ExecFailed(k)

SpecCache == Init /\ [][NextCache]_vars

TypeOK ==
  /\ ws \in 0..Len(sockets)
  /\ Len(sockets) <= MaxWs
  /\ Len(calls) <= MaxCalls
  /\ requestId \in 0..MaxReq
  /\ connected \in BOOLEAN
  /\ reconnectTimer \in 0..2

\* ================================================================ claims
IsPending(i) == calls[i].state = "pending"

\* The channels main/index.ts subscribes to with gateway.on(...).
Subscribers == {"message", "connected", "disconnected"}

\* EventEmitter.emit(channel, ...): emitting 'error' while no listener is
\* registered for it throws the error instead of returning false.
EmitThrows(channel) == channel = "error" /\ channel \notin Subscribers

\* The ws.on('error') callback of the current step ended by an exception: its
\* this.emit('error', err) is not inside any try block.
ErrorCallbackThrew == emitted = << <<"error", "transport">> >> /\ EmitThrows("error")

\* What a subscriber of the 'message' channel (main/index.ts) is called with
\* in the current step: the normalized events' types, in emission order.
OnMessage ==
  LET d == SelectSeq(emitted, LAMBDA e : e[1] = "message")
  IN  [k \in 1..Len(d) |-> d[k][2]]

\* C1: when a transport closes, every call pending on it is rejected in the
\* same step, so no call is left pending on a transport whose 'close' event
\* has been handled.
C1_PendingRejectedOnClose ==
  \A i \in 1..Len(calls) : IsPending(i) => sockets[calls[i].sock].readyState # "CLOSED"

\* C2: from disconnect() until a caller calls connect() again (this.ws is
\* null exactly then, or before the first connect()) no reconnect timer is
\* outstanding, so the client never calls connect() by itself.
C2_DisconnectSuppressesReconnect == ws = 0 => timers = {}

\* C3: without disconnect(), reconnection never stops: whenever the current
\* transport has closed, a reconnect timer is outstanding that will call
\* connect().
C3_ReconnectNeverStops ==
  (ws # 0 /\ sockets[ws].readyState = "CLOSED") => timers # {}

\* C4: at most one reconnect timer is outstanding in every reachable state.
C4_AtMostOneReconnectTimer == Cardinality(timers) <= 1

\* C4 witness: a second transport has closed while the timer scheduled by the
\* first close was still outstanding.
C4_Witness ==
  /\ Len(sockets) >= 2
  /\ \A w \in 1..Len(sockets) : sockets[w].readyState = "CLOSED"
  /\ reconnectTimer \in timers
  /\ emitted = << <<"disconnected", "">> >>

\* C5: a call's promise is settled exactly once: every call issued is
\* eventually settled, and once settled its state and value never change
\* again, whatever responses, timeouts and closes follow.
C5_SettledExactlyOnce ==
  /\ [][\A i \in 1..Len(calls) :
         ~IsPending(i) => (calls'[i].state = calls[i].state /\ calls'[i].value = calls[i].value)]_vars
  /\ \A i \in 1..MaxCalls : (Len(calls) >= i) ~> (Len(calls) >= i /\ ~IsPending(i))

\* C5 witness: a call was resolved by its response and its timeout, which
\* rejects, has fired since.
C5_Witness ==
  \E i \in 1..Len(calls) : calls[i].state = "resolved" /\ ~calls[i].timer

\* C6: a resolved call was resolved by the response carrying its own id, with
\* that response's payload.
C6_ResolvedByOwnResponse ==
  \A i \in 1..Len(calls) :
    calls[i].state = "resolved" => calls[i].from = <<calls[i].id, calls[i].value>>

\* C6 witness: two calls pending on one transport, and the response to the
\* second has just arrived: it resolved the second and left the first pending.
C6_Witness ==
  /\ Len(calls) >= 2
  /\ calls[1].sock = calls[2].sock
  /\ IsPending(1) /\ calls[1].listening
  /\ calls[2].state = "resolved"
  /\ handled.type = "res" /\ handled.ok

\* C7: the connected flag is true exactly when a connect response with ok=true
\* was observed on the current transport since it opened and that transport
\* has not closed since.
C7_ReadyIffHandshake ==
  connected <=> okSeen

\* C8: from the handling of a connect response with ok=false until a later
\* connect response with ok=true, isConnected() is false.
C8_RejectedNeverReady == rejectedSince => ~isConnected

\* C9: handling a connect response with ok=false emits an `error` notification.
C9_RejectionEmitsError ==
  (handled.type = "res" /\ handled.method = "connect" /\ ~handled.ok)
    => \E k \in 1..Len(emitted) : emitted[k][1] = "error"

\* C10: handling a connect.challenge event sends exactly one `connect` request
\* and emits nothing to collaborators.
C10_ChallengeAnsweredOnce ==
  (handled.type = "event" /\ handled.event = "connect.challenge")
    => (Len(sent) = 1 /\ sent[1].method = "connect" /\ emitted = <<>>)

\* C11: the connect request sent in answer to a challenge that carries a nonce
\* n carries device.nonce = n, the nonce of the challenge handled in that step.
C11_NonceEchoed ==
  (IsChallenge(handled) /\ handled.nonce # "undefined")
    => \A k \in 1..Len(sent) : sent[k].method = "connect" /\ sent[k].nonce = handled.nonce

\* C11 witness: a second challenge, carrying "xyz", has just been answered
\* with a request carrying "xyz".
C11_Witness ==
  /\ IsChallenge(handled) /\ handled.nonce = "xyz"
  /\ requestId = 2
  /\ Len(sent) = 1 /\ sent[1].nonce = "xyz"

\* C12: once the handshake has completed on the current transport (the only
\* transport created so far), a further connect response handled on it emits
\* nothing, leaves the connected flag as it was and does not close the
\* transport.
C12_DuplicateConnectIsNoOp ==
  [][(Len(sockets) = 1 /\ ws = 1 /\ okSeen /\ connected /\ IsConnectRes(handled'))
       => (emitted' = <<>> /\ connected' = connected /\ sockets' = sockets)]_vars

C15_StrayResponseIgnored ==
  [][(requestId = 0 /\ handled'.type = "res")
       => (emitted' = <<>> /\ connected' = connected /\ sockets' = sockets
           /\ ws' = ws /\ calls' = calls)]_vars

\* C16: a malformed inbound message settles no call: no call is ever rejected
\* with a parse error.
C16_MalformedSettlesNoCall ==
  \A i \in 1..Len(calls) : ~(calls[i].state = "rejected" /\ calls[i].value = "parse")

\* C17: in a step in which a pending call is rejected by an ok=false response
\* or by its timeout, every other call (its promise, listener and timeout)
\* stays exactly as it was.
C17_FailureSettlesOnlyThatCall ==
  [][\A j \in 1..Len(calls) :
       (IsPending(j) /\ calls'[j].state = "rejected" /\ calls'[j].value \in Errors \cup {"Timeout"})
         => \A i \in 1..Len(calls) : i # j => calls'[i] = calls[i]]_vars

\* C17 witness: of two calls on one transport the first has been rejected
\* (by its ok=false response or its timeout) and the second, left pending with
\* its listener, has then been resolved by its own response.
C17_Witness ==
  /\ Len(calls) = 2
  /\ calls[1].sock = calls[2].sock
  /\ calls[1].state = "rejected" /\ calls[1].value \in Errors \cup {"Timeout"}
  /\ calls[2].state = "resolved"
  /\ matched = {2}

C19_DeliveredInArrivalOrder ==
  IF handled.type = "event" /\ ~IsChallenge(handled)
  THEN Len(OnMessage) = 1 /\ (handled.event # "" => OnMessage[1] = handled.event)
  ELSE OnMessage = <<>>

\* C20: a step that emits a transport error emits nothing else, sends nothing
\* and leaves the transports, the connected flag, the reconnect timer, the
\* request counter and every call as they were.
C20_ErrorOnlySurfaced ==
  [][(\E k \in 1..Len(emitted') : emitted'[k] = <<"error", "transport">>)
       => /\ emitted' = << <<"error", "transport">> >>
          /\ sent' = <<>>
          /\ sockets' = sockets /\ ws' = ws /\ connected' = connected
          /\ reconnectTimer' = reconnectTimer /\ timers' = timers
          /\ requestId' = requestId /\ calls' = calls]_vars

\* C20 witness: a transport error has just been surfaced while the client was
\* ready and a call was pending on the current transport.
C20_Witness ==
  /\ emitted = << <<"error", "transport">> >>
  /\ isConnected
  /\ \E i \in 1..Len(calls) : IsPending(i) /\ calls[i].sock = ws /\ calls[i].listening

\* C21: a step that handles a transport's close (the only step that emits
\* `disconnected`) leaves isConnected() false, schedules one reconnect timer
\* if none was outstanding, and leaves the outstanding one alone otherwise.
C21_CloseSchedulesIffNonePending ==
  [][emitted' = << <<"disconnected", "">> >>
       => /\ ~isConnected'
          /\ timers = {} => Cardinality(timers') = 1
          /\ timers # {} => timers' = timers]_vars

\* C22: connect() while the current transport is open changes nothing, and no
\* step creates a transport while the current one is open.
C22_ConnectIdempotent ==
  [][/\ (WsIsOpen(sockets, ws) /\ Connect)
          => UNCHANGED <<sockets, ws, connected, reconnectTimer, timers, requestId, calls>>
     /\ Len(sockets') > Len(sockets) => ~WsIsOpen(sockets, ws)]_vars

\* C22 witness: the handshake completed on the first transport, and connect()
\* has been called since (the only callback that leaves this state: one open
\* transport, ready, nothing emitted or handled in the step).
C22_Witness ==
  /\ Len(sockets) = 1 /\ isConnected /\ okSeen
  /\ emitted = <<>> /\ handled = NoHeader

\* C23: at most one of the transports the client created is connecting or open.
C23_SingleTransport ==
  Cardinality({w \in 1..Len(sockets) : sockets[w].readyState \in {"CONNECTING", "OPEN"}}) <= 1

\* C24: disconnect() leaves no reconnect timer outstanding, leaves the
\* transport that was current neither connecting nor open, leaves this.ws
\* null and isConnected() false, and a second disconnect() right after it
\* would change nothing.
C24_DisconnectIdempotent ==
  [][Disconnect
       => /\ timers' = {} /\ reconnectTimer' = 0
          /\ ws # 0 => sockets'[ws].readyState \notin {"CONNECTING", "OPEN"}
          /\ ws' = 0 /\ ~isConnected'
          /\ DisconnectResult' = <<timers', reconnectTimer', sockets', ws', connected'>>]_vars

\* C24 witness: the first transport has closed, and disconnect() has been
\* called while the second one was current: it is closing and no timer is left.
C24_Witness ==
  /\ ws = 0 /\ ~connected
  /\ Len(sockets) = 2
  /\ sockets[1].readyState = "CLOSED" /\ sockets[2].readyState = "CLOSING"
  /\ timers = {} /\ reconnectTimer = 0

\* C26: isConnected() is true exactly when the handshake has completed on the
\* current transport (the state Ready) and that transport is open.
C26_IsConnectedIffReady ==
  isConnected <=> (okSeen /\ WsIsOpen(sockets, ws))

\* C27: a settled call has neither its message listener nor its timeout still
\* registered.
C27_SettledCallDestroyed ==
  \A i \in 1..Len(calls) : ~IsPending(i) => (~calls[i].listening /\ ~calls[i].timer)

\* C28: the handshake has completed on the current transport only if a
\* connect.challenge was received on that transport and a request was sent.
C28_ReadyOnlyAfterChallenge ==
  okSeen => (sockets[ws].challenged /\ requestId > 0)

\* C29: every frame is sent on a transport on which a connect.challenge has
\* been received.
C29_SilentUntilChallenge ==
  \A k \in 1..Len(sent) : sockets[sent[k].sock].challenged

\* C25: request ids are never reused: the counter never decreases, a step
\* that sends a frame sends one frame, numbered with the counter's value, and
\* increments the counter, a call registered in the step carries the id of
\* that frame, and so the calls' ids are pairwise distinct and below the counter.
C25_IdsNeverReused ==
  /\ [](\A i, j \in 1..Len(calls) :
          calls[i].id[2] < requestId /\ (i # j => calls[i].id # calls[j].id))
  /\ [][/\ requestId' >= requestId
        /\ Len(sent') > 0 =>
             (/\ Len(sent') = 1
              /\ sent'[1].id[2] = requestId
              /\ requestId' = requestId + 1)
        /\ Len(calls') > Len(calls) =>
             (/\ Len(calls') = Len(calls) + 1
              /\ Len(sent') = 1
              /\ calls'[Len(calls')].id = sent'[1].id)]_vars

\* C25 witness: after a handshake request and a call on the first transport,
\* a handshake request has just been sent on the second one, with the third id.
C25_Witness ==
  /\ Len(calls) = 1
  /\ Len(sent) = 1 /\ sent[1].method = "connect" /\ sent[1].sock = 2
  /\ sent[1].id = <<"req", 2>>

\* C30: a step that sends the handshake request registers no call; a response
\* with method `connect` and ok=true makes the client connected and emits
\* `connected`, and a response with any other method leaves the connected
\* flag and the transports alone and emits nothing, whether or not the id
\* they carry is the id of the handshake request.
C30_HandshakeMatchedByMethod ==
  [][/\ (\E k \in 1..Len(sent') : sent'[k].method = "connect") => calls' = calls
     /\ (handled'.type = "res" /\ handled'.method = "connect" /\ handled'.ok)
          => (connected' /\ emitted' = << <<"connected", "">> >>)
     /\ (handled'.type = "res" /\ handled'.method # "connect")
          => (connected' = connected /\ emitted' = <<>> /\ sockets' = sockets)]_vars

\* C30 witness: a handshake request has just been sent while a call was
\* pending, and the calls are the one call still.
C30_Witness ==
  /\ Len(sent) = 1 /\ sent[1].method = "connect"
  /\ Len(calls) = 1 /\ IsPending(1) /\ calls[1].listening

\* C31: while the handshake has completed on the current transport and that
\* transport is open, isConnected() is true, whatever superseded transports
\* have done since.
C31_StaleCloseKeepsReady ==
  (okSeen /\ WsIsOpen(sockets, ws)) => isConnected

\* C32: the transport that has just received its first connect.challenge is
\* the transport every frame of that step is sent on.
C32_AnsweredOnSameTransport ==
  [][\A w \in 1..Len(sockets) :
       (~sockets[w].challenged /\ sockets'[w].challenged)
         => \A k \in 1..Len(sent') : sent'[k].sock = w]_vars

\* C33: an emission on the `connected` channel happens only in a step that
\* handles a response (the handshake's success), never in a step that
\* handles a pushed event; and no step calls the `message` subscribers twice.
C33_LifecycleChannelsReserved ==
  /\ \A k \in 1..Len(emitted) : emitted[k][1] = "connected" => handled.type = "res"
  /\ Len(OnMessage) <= 1

\* C34: with the subscriptions of main/index.ts, no step that handles a
\* transport error ends with an exception thrown out of the error callback.
C34_ErrorEmitNeverThrows == ~ErrorCallbackThrew


\* C35: the buffer of forwarded events never holds more than MAX_EVENTS events;
\* it holds exactly the events received last since the last gateway:clear, in
\* the order they arrived, so the oldest is dropped first and a clear empties it.
C35_BoundedRingBuffer ==
  /\ Len(events) <= MAX_EVENTS
  /\ events = LastEvents(received, MAX_EVENTS)

\* More events than the buffer holds have arrived: the oldest ones are gone.
C35_Witness ==
  /\ Len(received) > MAX_EVENTS + 1
  /\ Len(events) = MAX_EVENTS
  /\ events[1] = Len(received) - MAX_EVENTS + 1

\* C36: a component never runs two loads at once; its lock is held exactly
\* while its load runs, whether the load ends in success or in failure, and a
\* load requested meanwhile returns at once without starting another.
C36_OneLoadInFlight ==
  /\ \A c \in Loaders :
       /\ loaders[c].running <= 1
       /\ loaders[c].isLoadingRef <=> loaders[c].running = 1
  /\ skipped # "none" => loaders[skipped].running = 1

\* Skills skips a request between its awaits, after a failed load of CronJobs
\* has released that component's lock.
C36_Witness ==
  /\ skipped = "Skills"
  /\ loaders["Skills"].awaitsLeft = 2
  /\ loaders["CronJobs"].error
  /\ ~loaders["CronJobs"].isLoadingRef

\* C37: every stored entry is a successful result; a handler returns a cached
\* entry only before its expiry, a lookup that misses leaves no entry for the
\* key, and a failed command stores nothing, so the next request runs it again.
C37_CacheServesFreshSuccess ==
  [][/\ \A k \in CacheKeys :
          /\ cache'[k].present => (cache'[k].success /\ cache'[k].expires <= now' + CACHE_TTL)
          /\ inFlight'[k] > inFlight[k] => ~cache'[k].present
     /\ served'.from = "cache" =>
          (/\ served'.success
           /\ cache[served'.key].present
           /\ cache[served'.key].expires > now)
     /\ (served'.from = "exec" /\ ~served'.success) => cache' = cache]_vars

\* A result is served from the cache while another key, whose entry expired or
\* was never stored, is being fetched again.
C37_Witness ==
  /\ served.from = "cache"
  /\ now >= CACHE_TTL
  /\ \E k \in CacheKeys : ~cache[k].present /\ inFlight[k] > 0

====
